---- MODULE Spec2Model ----
(***************************************************************************)
(* One-time initialisation (RawOnce backends) and the OnceLock / OnceCell  *)
(* wrappers of sync-api.                                                   *)
(*                                                                         *)
(* One cell is shared by NumThreads threads.  The cell is built by         *)
(* OnceLock::new / OnceLock::with_value (OnceCell for the in-crate spin    *)
(* backend) over one of five backends:                                     *)
(*   "spin"    examples/spin.rs              RawSpinOnce (busy wait)       *)
(*   "pl"      examples/parking_lot.rs       RawPlOnce   (keyed park)      *)
(*   "std"     examples/std.rs               RawStdOnce  (tagged pointer)  *)
(*   "cs"      examples/critical_section.rs  RawCsOnce                     *)
(*   "rawspin" src/raw_spin.rs               RawSpinOnce (monomorphic)     *)
(* Every atomic access of the state word is one step of the model.         *)
(***************************************************************************)
EXTENDS Integers, FiniteSets, Sequences, TLC

\* ------------------------------------------------------------------ bounds
NumThreads == 3
MaxCalls == 3
PtrBits == 5

Threads == 1..NumThreads
\* the thread the demo programs spawn first, ahead of the NumThreads others
Leader == NumThreads + 1
AllThreads == Threads \cup {Leader}
Backends == {"spin", "pl", "std", "cs", "rawspin"}
Ctors == {"new", "with_value"}
Outcomes == {"ok", "err", "panic"}

\* ------------------------------------------------ values held by the slot
\* Option<T>::None, the value given to with_value, the value thread t's
\* initializer produces, and what a read of an empty slot through
\* unwrap_unchecked may yield (undefined behaviour: any bit pattern).
NoneV == 0 - 1
Garbage == 0 - 2
WithValue == NumThreads + 2
ValueOf(t) == t
ErrorOf(t) == t
InitValues == {ValueOf(t) : t \in AllThreads}
UBOutcomes == {Garbage} \cup InitValues \cup {WithValue}

\* ------------------------------------------------------- lifecycle states
INCOMPLETE == 0
RUNNING == 1
COMPLETE == 2
POISONED == 3
STATE_MASK == 3

INCOMPLETE_PTR == INCOMPLETE
COMPLETE_PTR == COMPLETE
POISONED_PTR == POISONED

\* src/raw_spin.rs names the same four bytes Empty, Busy, Init, Poison.
RS_Empty == 0
RS_Busy == 1
RS_Init == 2
RS_Poison == 3

\* --------------------------------------------- strict-provenance helpers
PtrModulus == 2 ^ PtrBits
NULL == 0
\* address of the Waiter node on thread t's stack (4-aligned, non-null)
NodeAddr(t) == 4 * t
NodeOwner(a) == a \div 4

addr(ptr) == ptr

\* x & STATE_MASK and x & !STATE_MASK on a machine word
TagOf(w) == w % (STATE_MASK + 1)
StripTag(w) == w - TagOf(w)

\* wrapping_offset(dest - self): the result has address dest
with_addr(ptr, a) == (addr(ptr) + ((a - addr(ptr)) % PtrModulus)) % PtrModulus

\* map_addr(ptr, |q| (q & !STATE_MASK) | tag)
map_addr_tag(ptr, tag) == with_addr(ptr, StripTag(addr(ptr)) + tag)
\* map_addr(ptr, |q| q & !STATE_MASK)
map_addr_strip(ptr) == with_addr(ptr, StripTag(addr(ptr)))
\* map_addr(me, |q| q | curr_state), me 4-aligned
map_addr_or(me, tag) == with_addr(me, addr(me) + tag)

\* usize & | ! at the width of a machine word
RECURSIVE BitAndN(_, _, _)
BitAndN(x, y, n) ==
    IF n = 0 THEN 0
    ELSE (x % 2) * (y % 2) + 2 * BitAndN(x \div 2, y \div 2, n - 1)

RECURSIVE BitOrN(_, _, _)
BitOrN(x, y, n) ==
    IF n = 0 THEN 0
    ELSE (IF x % 2 = 1 \/ y % 2 = 1 THEN 1 ELSE 0) + 2 * BitOrN(x \div 2, y \div 2, n - 1)

BitAnd(x, y) == BitAndN(x, y, PtrBits)
BitOr(x, y) == BitOrN(x, y, PtrBits)
BitNot(x) == (PtrModulus - 1) - x

\* faulty variant: Waiter without #[repr(align(4))]
AlignedAddrs_any == 0..(PtrModulus - 1)

\* the addresses a Waiter can have, null included: the two low bits are zero
AlignedAddrs == {x \in 0..(PtrModulus - 1) : BitAnd(x, STATE_MASK) = 0}

VARIABLES
    backend,    \* which RawOnce implementation guards the cell
    ctor,       \* how the cell was constructed
    lazy,       \* LazyLock.init: Cell<Option<F>> ("none" once taken)
    word,       \* the backend's atomic state byte / tagged queue pointer
    slot,       \* UnsafeCell<Option<T>>
    csOwner,    \* holder of the global critical section (0: free)
    pc,         \* per thread: position in the current call
    fn,         \* per thread: what the closure passed to the call will do
    op,         \* per thread: the wrapper entry point it is executing
    cur,        \* per thread: last value loaded from the state word
    ost,        \* per thread: OnceState.is_poisoned handed to the closure
    gnew,       \* per thread: Guard.new / Guard.new_queue
    res,        \* per thread: how the closure ended ("none" if not run)
    ret,        \* per thread: result of the last finished wrapper call
    node,       \* per thread: the Waiter on its stack
    token,      \* per thread: std::thread park token
    wtr,        \* per thread: Guard::drop's cursor `waiter`
    thr,        \* per thread: Guard::drop's taken `thread` handle (0: none)
    calls,      \* number of wrapper calls started
    runs,       \* history: number of closure bodies executed
    ran,        \* history, per thread: the current call ran its own closure
    waited,     \* history, per thread: the current call waited on Running
    from,       \* history, per thread: state the current episode was claimed from
    made,       \* history: values written to the slot by initializers
    writes,     \* history: number of writes of the slot since construction
    failable    \* history: some call was started with a failing closure

shared == <<backend, ctor, lazy, word, slot, csOwner>>
locals == <<pc, fn, op, cur, ost, gnew, res, ret>>
queue == <<node, token, wtr, thr>>
hist == <<calls, runs, ran, waited, from, made, writes, failable>>
vars == <<backend, ctor, lazy, word, slot, csOwner, pc, fn, op, cur, ost, gnew, res, ret,
          node, token, wtr, thr, calls, runs, ran, waited, from, made, writes, failable>>

NoRet == [kind |-> "none", v |-> NoneV]
FreshNode == [thread |-> FALSE, signaled |-> FALSE, next |-> NULL, live |-> FALSE]

\* ------------------------------------------------- the backend constants
\* RawOnce::INCOMPLETE / RawOnce::COMPLETE (INIT / COMPLETED in src/once.rs)
Spin_INCOMPLETE == INCOMPLETE
Spin_COMPLETE == COMPLETE
Pl_INCOMPLETE == INCOMPLETE
Pl_COMPLETE == COMPLETE
Cs_INCOMPLETE == INCOMPLETE
Cs_COMPLETE == COMPLETE
\* examples/std.rs:39-45 initialises the two constants with the other's pointer
Std_INCOMPLETE == COMPLETE_PTR
Std_COMPLETE == INCOMPLETE_PTR
RawSpin_INIT == RS_Empty
RawSpin_COMPLETED == RS_Init

R_INCOMPLETE(b) ==
    CASE b = "spin" -> Spin_INCOMPLETE
      [] b = "pl" -> Pl_INCOMPLETE
      [] b = "std" -> Std_INCOMPLETE
      [] b = "cs" -> Cs_INCOMPLETE
      [] b = "rawspin" -> RawSpin_INIT

R_COMPLETE(b) ==
    CASE b = "spin" -> Spin_COMPLETE
      [] b = "pl" -> Pl_COMPLETE
      [] b = "std" -> Std_COMPLETE
      [] b = "cs" -> Cs_COMPLETE
      [] b = "rawspin" -> RawSpin_COMPLETED

\* OnceLock::new / OnceLock::with_value (OnceCell::new / with_value)
OnceLock_new(b) == [once |-> R_INCOMPLETE(b), value |-> NoneV]
OnceLock_with_value(b, v) == [once |-> R_COMPLETE(b), value |-> v]

\* no thread has called anything yet; every thread stands at position p
FreshAt(p) ==
    /\ csOwner = 0
    /\ pc = [t \in AllThreads |-> p]
    /\ fn = [t \in AllThreads |-> "ok"]
    /\ op = [t \in AllThreads |-> "none"]
    /\ cur = [t \in AllThreads |-> 0]
    /\ ost = [t \in AllThreads |-> FALSE]
    /\ gnew = [t \in AllThreads |-> 0]
    /\ res = [t \in AllThreads |-> "none"]
    /\ ret = [t \in AllThreads |-> NoRet]
    /\ node = [t \in AllThreads |-> FreshNode]
    /\ token = [t \in AllThreads |-> FALSE]
    /\ wtr = [t \in AllThreads |-> NULL]
    /\ thr = [t \in AllThreads |-> 0]
    /\ calls = 0
    /\ runs = 0
    /\ ran = [t \in AllThreads |-> FALSE]
    /\ waited = [t \in AllThreads |-> FALSE]
    /\ from = [t \in AllThreads |-> INCOMPLETE]
    /\ made = {}
    /\ writes = 0
    /\ failable = FALSE

Fresh == FreshAt("idle")

\* the cell as its constructor leaves it
Constructed(b, c) ==
    LET cell == IF c = "new" THEN OnceLock_new(b)
                ELSE OnceLock_with_value(b, WithValue)
    IN /\ backend = b
       /\ ctor = c
       /\ word = cell.once
       /\ slot = cell.value

Init ==
    /\ \E b \in Backends, c \in Ctors : Constructed(b, c)
    /\ lazy = "absent"
    /\ Fresh

\* --------------------------------------------------------- is_completed
Spin_is_completed(w) == w = COMPLETE
Pl_is_completed(w) == w = COMPLETE
Std_is_completed(w) == w = COMPLETE_PTR
Cs_is_completed(w) == w = COMPLETE
RawSpin_is_completed(w) == w = RS_Init

is_completed ==
    CASE backend = "spin" -> Spin_is_completed(word)
      [] backend = "pl" -> Pl_is_completed(word)
      [] backend = "std" -> Std_is_completed(word)
      [] backend = "cs" -> Cs_is_completed(word)
      [] backend = "rawspin" -> RawSpin_is_completed(word)

\* get_unchecked: (*self.value.get()).as_ref().unwrap_unchecked().
\* On an empty slot this is undefined behaviour; the set holds what it may yield.
get_unchecked(s) == IF s = NoneV THEN UBOutcomes ELSE {s}


\* ------------------------------------------------------ wrapper: OnceLock
Ok(v) == [kind |-> "ok", v |-> v]
Err(e) == [kind |-> "err", v |-> e]
Panicked == [kind |-> "panic", v |-> NoneV]
Some(v) == [kind |-> "some", v |-> v]
Absent == [kind |-> "absent", v |-> NoneV]

\* bookkeeping shared by every wrapper entry point: a new call starts
CountCall(t, f) ==
    /\ calls' = calls + 1
    /\ failable' = (failable \/ f # "ok")
    /\ ran' = [ran EXCEPT ![t] = FALSE]
    /\ waited' = [waited EXCEPT ![t] = FALSE]

StartCall(t, f) ==
    /\ CountCall(t, f)
    /\ UNCHANGED <<runs, from, made, writes>>

\* the calls the threads make are bounded
BeginCall(t, f) ==
    /\ calls < MaxCalls
    /\ StartCall(t, f)

\* what set / try_insert hand back: Result<(), T> and Result<&T, (&T, T)>;
\* `v` is the value returned to the caller (its own, or the one present)
SetOk == [kind |-> "set_ok", v |-> NoneV]
SetErr(v) == [kind |-> "set_err", v |-> v]
InsertOk(present) == [kind |-> "insert_ok", v |-> present]
InsertErr(present) == [kind |-> "insert_err", v |-> present]
\* what the Once entry points hand back: () or Ok(()), and the panic
\* "Once poisoned" as distinct from a panic of the user's closure
Unit == [kind |-> "unit", v |-> NoneV]
OncePoisoned == [kind |-> "once_poisoned", v |-> NoneV]

\* the value the initializer stored in a LazyLock produces
LazyValue == NumThreads + 3

\* OnceLock::get: Some(get_unchecked()) if is_completed(), else None.  With
\* an empty slot get_unchecked is undefined behaviour: the reference may be
\* anything, null included, and Some(null) is None in Option<&T>'s layout.
OnceLock_get_results ==
    IF is_completed
    THEN IF slot = NoneV
         THEN {Absent} \cup {Some(v) : v \in get_unchecked(slot)}
         ELSE {Some(v) : v \in get_unchecked(slot)}
    ELSE {Absent}

OnceLock_get(t) ==
    /\ backend # "rawspin"
    /\ pc[t] = "idle"
    /\ BeginCall(t, "ok")
    /\ \E r \in OnceLock_get_results : ret' = [ret EXCEPT ![t] = r]
    /\ UNCHANGED <<shared, pc, fn, op, cur, ost, gnew, res, queue>>

\* the wrapper enters once.call(closure) as entry point o with closure kind f
EnterCall(t, o, f) ==
    /\ ret' = [ret EXCEPT ![t] = NoRet]
    /\ pc' = [pc EXCEPT ![t] = "call"]
    /\ fn' = [fn EXCEPT ![t] = f]
    /\ op' = [op EXCEPT ![t] = o]

\* OnceLock::get_or_try_init up to the backend call: the fast path through
\* get(), else once.call(closure).  get_or_init is the case f = "ok"/"panic".
OnceLock_get_or_try_init_entry(t, o, f) ==
    /\ \E r \in OnceLock_get_results :
          IF r.kind = "some"
          THEN /\ ret' = [ret EXCEPT ![t] = Ok(r.v)]
               /\ pc' = [pc EXCEPT ![t] = "idle"]
               /\ UNCHANGED <<fn, op>>
          ELSE EnterCall(t, o, f)
    /\ UNCHANGED <<shared, cur, ost, gnew, res, queue>>

OnceLock_get_or_try_init(t, f) ==
    /\ backend # "rawspin"
    /\ pc[t] = "idle"
    /\ BeginCall(t, f)
    /\ OnceLock_get_or_try_init_entry(t, "get_or_try_init", f)

\* OnceLock::set up to the backend call:
\*   if self.get().is_some() { return Err(value) }, else once.call(closure)
OnceLock_set(t) ==
    /\ backend # "rawspin"
    /\ pc[t] = "idle"
    /\ BeginCall(t, "ok")
    /\ \E r \in OnceLock_get_results :
          IF r.kind = "some"
          THEN /\ ret' = [ret EXCEPT ![t] = SetErr(ValueOf(t))]
               /\ UNCHANGED <<pc, fn, op>>
          ELSE EnterCall(t, "set", "ok")
    /\ UNCHANGED <<shared, cur, ost, gnew, res, queue>>

\* OnceLock::try_insert up to the backend call: it begins with self.set(value)
\* and, when set returns at once, goes on to read `present`
OnceLock_try_insert(t) ==
    /\ backend # "rawspin"
    /\ pc[t] = "idle"
    /\ BeginCall(t, "ok")
    /\ \E r \in OnceLock_get_results :
          IF r.kind = "some"
          THEN /\ \E present \in get_unchecked(slot) :
                     ret' = [ret EXCEPT ![t] = InsertErr(present)]
               /\ UNCHANGED <<pc, fn, op>>
          ELSE EnterCall(t, "try_insert", "ok")
    /\ UNCHANGED <<shared, cur, ost, gnew, res, queue>>

\* the closure get_or_try_init hands to once.call:
\*   let value = f()?; *self.value.get() = Some(value); Ok(())
\* (a panic of f unwinds through it)
OnceLock_closure(t) ==
    /\ runs' = runs + 1
    /\ ran' = [ran EXCEPT ![t] = TRUE]
    /\ res' = [res EXCEPT ![t] = fn[t]]
    /\ IF fn[t] = "ok"
       THEN /\ slot' = ValueOf(t)
            /\ made' = made \cup {ValueOf(t)}
            /\ writes' = writes + 1
       ELSE UNCHANGED <<slot, made, writes>>
    /\ UNCHANGED lazy

\* the closure set hands to once.call:
\*   *self.value.get() = value.take(); Ok(())
OnceLock_set_closure(t) ==
    /\ runs' = runs + 1
    /\ ran' = [ran EXCEPT ![t] = TRUE]
    /\ res' = [res EXCEPT ![t] = "ok"]
    /\ slot' = ValueOf(t)
    /\ made' = made \cup {ValueOf(t)}
    /\ writes' = writes + 1
    /\ UNCHANGED lazy

\* the closure LazyLock::force hands to get_or_init:
\*   let init = this.init.take().unwrap_unchecked(); init()
\* If the initializer was taken before, unwrap_unchecked is undefined
\* behaviour: the call through the missing function crashes or yields anything.
LazyLock_closure(t) ==
    /\ runs' = runs + 1
    /\ ran' = [ran EXCEPT ![t] = TRUE]
    /\ lazy' = "taken"
    /\ CASE lazy = "ok" ->
              /\ res' = [res EXCEPT ![t] = "ok"]
              /\ slot' = LazyValue
              /\ made' = made \cup {LazyValue}
              /\ writes' = writes + 1
         [] lazy = "panic" ->
              /\ res' = [res EXCEPT ![t] = "panic"]
              /\ UNCHANGED <<slot, made, writes>>
         [] OTHER ->
              \/ /\ res' = [res EXCEPT ![t] = "panic"]
                 /\ UNCHANGED <<slot, made, writes>>
              \/ /\ res' = [res EXCEPT ![t] = "ok"]
                 /\ slot' = Garbage
                 /\ made' = made \cup {Garbage}
                 /\ writes' = writes + 1

\* the closure the OnceLock wrappers hand to once.call, by entry point
OnceLock_call_closure(t) ==
    CASE op[t] \in {"set", "try_insert"} -> OnceLock_set_closure(t)
      [] op[t] = "force" -> LazyLock_closure(t)
      [] OTHER -> OnceLock_closure(t)

\* what the entry point returns after once.call(..) came back:
\*   get_or_try_init: `?` propagates Err, otherwise Ok(get_unchecked())
\*   set: Err(value) if the closure did not take the value, else Ok(())
\*   try_insert: set's result joined with get_unchecked()
OnceLock_results(t) ==
    CASE res[t] = "err" -> {Err(ErrorOf(t))}
      [] res[t] = "panic" -> {Panicked}
      [] op[t] = "set" -> IF res[t] = "ok" THEN {SetOk} ELSE {SetErr(ValueOf(t))}
      [] op[t] = "try_insert" ->
            IF res[t] = "ok" THEN {InsertOk(v) : v \in get_unchecked(slot)}
            ELSE {InsertErr(v) : v \in get_unchecked(slot)}
      [] OTHER -> {Ok(v) : v \in get_unchecked(slot)}

\* the frame of the finished call is popped
LeaveCall(t) ==
    /\ pc' = [pc EXCEPT ![t] = "idle"]
    /\ res' = [res EXCEPT ![t] = "none"]
    /\ fn' = [fn EXCEPT ![t] = "ok"]
    /\ op' = [op EXCEPT ![t] = "none"]
    /\ cur' = [cur EXCEPT ![t] = 0]
    /\ ost' = [ost EXCEPT ![t] = FALSE]
    /\ gnew' = [gnew EXCEPT ![t] = 0]

OnceLock_call_returned(t) ==
    /\ backend # "rawspin"
    /\ pc[t] = "wret"
    /\ \E r \in OnceLock_results(t) : ret' = [ret EXCEPT ![t] = r]
    /\ LeaveCall(t)
    /\ UNCHANGED <<shared, queue, hist>>

\* ------------------------------------------- backend: examples/spin.rs
\* faulty variant: an exchange that does not compare
Spin_compare_exchange_blind(w, current) == TRUE

\* AtomicState::compare_exchange succeeds iff the byte equals `current`
Spin_compare_exchange(w, current) == w = current

\* faulty variant: try_acquire gives up instead of waiting when it sees Running
Spin_try_acquire_nowait(t) ==
    /\ backend = "spin"
    /\ pc[t] = "call"
    /\ CASE word = RUNNING ->
              /\ pc' = [pc EXCEPT ![t] = "wret"]
              /\ waited' = [waited EXCEPT ![t] = TRUE]
              /\ UNCHANGED <<cur, ost>>
         [] word = COMPLETE ->
              /\ pc' = [pc EXCEPT ![t] = "wret"]
              /\ UNCHANGED <<cur, ost, waited>>
         [] OTHER ->
              /\ pc' = [pc EXCEPT ![t] = "cas"]
              /\ cur' = [cur EXCEPT ![t] = word]
              /\ ost' = [ost EXCEPT ![t] = (word = POISONED)]
              /\ UNCHANGED waited
    /\ UNCHANGED <<shared, fn, op, gnew, res, ret, queue, calls, runs, ran, from, made, writes, failable>>

\* try_acquire: load and match
Spin_try_acquire(t) ==
    /\ backend = "spin"
    /\ pc[t] = "call"
    /\ CASE word = RUNNING ->
              /\ pc' = [pc EXCEPT ![t] = "spin"]
              /\ waited' = [waited EXCEPT ![t] = TRUE]
              /\ UNCHANGED <<cur, ost>>
         [] word = COMPLETE ->
              /\ pc' = [pc EXCEPT ![t] = "wret"]
              /\ UNCHANGED <<cur, ost, waited>>
         [] OTHER ->
              /\ pc' = [pc EXCEPT ![t] = "cas"]
              /\ cur' = [cur EXCEPT ![t] = word]
              /\ ost' = [ost EXCEPT ![t] = (word = POISONED)]
              /\ UNCHANGED waited
    /\ UNCHANGED <<shared, fn, op, gnew, res, ret, queue, calls, runs, ran, from, made, writes, failable>>

\* wait_while_running: leaves the loop once a load sees another state
Spin_wait_while_running(t) ==
    /\ backend = "spin"
    /\ pc[t] = "spin"
    /\ word # RUNNING
    /\ pc' = [pc EXCEPT ![t] = "call"]
    /\ UNCHANGED <<shared, fn, op, cur, ost, gnew, res, ret, queue, hist>>

\* try_acquire: compare_exchange(state, Running)
Spin_try_acquire_cas(t) ==
    /\ backend = "spin"
    /\ pc[t] = "cas"
    /\ IF Spin_compare_exchange(word, cur[t])
       THEN /\ word' = RUNNING
            /\ pc' = [pc EXCEPT ![t] = "init"]
            /\ from' = [from EXCEPT ![t] = cur[t]]
       ELSE /\ pc' = [pc EXCEPT ![t] = "call"]
            /\ UNCHANGED <<word, from>>
    /\ UNCHANGED <<backend, ctor, lazy, slot, csOwner, fn, op, cur, ost, gnew, res, ret, queue,
                   calls, runs, ran, waited, made, writes, failable>>

\* call: guard installed, f(&once_state) runs
Spin_call(t) ==
    /\ backend = "spin"
    /\ pc[t] = "init"
    /\ OnceLock_call_closure(t)
    /\ pc' = [pc EXCEPT ![t] = "finish"]
    /\ UNCHANGED <<backend, ctor, word, csOwner, fn, op, cur, ost, gnew, ret, queue,
                   calls, waited, from, failable>>

\* finish_init: mem::forget(guard); store(Complete)
Spin_finish_init(t) ==
    /\ backend = "spin"
    /\ pc[t] = "finish"
    /\ res[t] = "ok"
    /\ word' = COMPLETE
    /\ pc' = [pc EXCEPT ![t] = "wret"]
    /\ UNCHANGED <<backend, ctor, lazy, slot, csOwner, fn, op, cur, ost, gnew, res, ret, queue, hist>>

\* Guard::drop on `?` or unwind: store(Poisoned)
Spin_Guard_drop(t) ==
    /\ backend = "spin"
    /\ pc[t] = "finish"
    /\ res[t] # "ok"
    /\ word' = POISONED
    /\ pc' = [pc EXCEPT ![t] = "wret"]
    /\ UNCHANGED <<backend, ctor, lazy, slot, csOwner, fn, op, cur, ost, gnew, res, ret, queue, hist>>

\* ------------------------------------- backend: examples/parking_lot.rs
\* faulty variant: an exchange that does not compare
Pl_compare_exchange_blind(w, current) == TRUE

Pl_compare_exchange(w, current) == w = current

\* faulty variant: park() without a validation predicate
Pl_park_validate_always(w) == TRUE

\* the validation predicate of park(): state is still Running
Pl_park_validate(w) == w = RUNNING

\* acquire: load and match
Pl_acquire(t) ==
    /\ backend = "pl"
    /\ pc[t] = "call"
    /\ CASE word = RUNNING ->
              /\ pc' = [pc EXCEPT ![t] = "park"]
              /\ UNCHANGED <<cur, ost>>
         [] word = COMPLETE ->
              /\ pc' = [pc EXCEPT ![t] = "wret"]
              /\ UNCHANGED <<cur, ost>>
         [] OTHER ->
              /\ pc' = [pc EXCEPT ![t] = "cas"]
              /\ cur' = [cur EXCEPT ![t] = word]
              /\ ost' = [ost EXCEPT ![t] = (word = POISONED)]
    /\ UNCHANGED <<shared, fn, op, gnew, res, ret, queue, hist>>

\* acquire: park(key, validate, ..): under the queue lock the thread is put
\* to sleep on the key iff validate() holds; otherwise park returns at once
Pl_acquire_park(t) ==
    /\ backend = "pl"
    /\ pc[t] = "park"
    /\ IF Pl_park_validate(word)
       THEN /\ pc' = [pc EXCEPT ![t] = "parked"]
            /\ waited' = [waited EXCEPT ![t] = TRUE]
       ELSE /\ pc' = [pc EXCEPT ![t] = "call"]
            /\ UNCHANGED waited
    /\ UNCHANGED <<shared, fn, op, cur, ost, gnew, res, ret, queue,
                   calls, runs, ran, from, made, writes, failable>>

\* acquire: compare_exchange(state, Running)
Pl_acquire_cas(t) ==
    /\ backend = "pl"
    /\ pc[t] = "cas"
    /\ IF Pl_compare_exchange(word, cur[t])
       THEN /\ word' = RUNNING
            /\ pc' = [pc EXCEPT ![t] = "init"]
            /\ from' = [from EXCEPT ![t] = cur[t]]
       ELSE /\ pc' = [pc EXCEPT ![t] = "call"]
            /\ UNCHANGED <<word, from>>
    /\ UNCHANGED <<backend, ctor, lazy, slot, csOwner, fn, op, cur, ost, gnew, res, ret, queue,
                   calls, runs, ran, waited, made, writes, failable>>

\* call: guard installed, f(&once_state) runs
Pl_call(t) ==
    /\ backend = "pl"
    /\ pc[t] = "init"
    /\ OnceLock_call_closure(t)
    /\ pc' = [pc EXCEPT ![t] = "finish"]
    /\ UNCHANGED <<backend, ctor, word, csOwner, fn, op, cur, ost, gnew, ret, queue,
                   calls, waited, from, failable>>

\* call: mem::forget(guard); store(Complete)
Pl_call_complete(t) ==
    /\ backend = "pl"
    /\ pc[t] = "finish"
    /\ res[t] = "ok"
    /\ word' = COMPLETE
    /\ pc' = [pc EXCEPT ![t] = "unpark_all"]
    /\ UNCHANGED <<backend, ctor, lazy, slot, csOwner, fn, op, cur, ost, gnew, res, ret, queue, hist>>

\* the threads unpark_all(key) resumes: every thread parked on the key
Pl_unpark_all_set(parked) == parked

\* call: unpark_all(key): every thread parked on the key resumes in acquire
Pl_call_unpark_all(t) ==
    /\ backend = "pl"
    /\ pc[t] = "unpark_all"
    /\ LET woken == Pl_unpark_all_set({u \in AllThreads : pc[u] = "parked"})
       IN pc' = [u \in AllThreads |->
                   IF u = t THEN "wret" ELSE IF u \in woken THEN "call" ELSE pc[u]]
    /\ UNCHANGED <<shared, fn, op, cur, ost, gnew, res, ret, queue, hist>>

\* faulty variant: the guard does not fire
Pl_Guard_drop_forgotten(t) ==
    /\ backend = "pl"
    /\ pc[t] = "finish"
    /\ res[t] # "ok"
    /\ pc' = [pc EXCEPT ![t] = "wret"]
    /\ UNCHANGED <<shared, fn, op, cur, ost, gnew, res, ret, queue, hist>>

\* faulty variant: the guard resets the state instead of poisoning it
Pl_Guard_drop_reset(t) ==
    /\ backend = "pl"
    /\ pc[t] = "finish"
    /\ res[t] # "ok"
    /\ word' = INCOMPLETE
    /\ pc' = [pc EXCEPT ![t] = "unpark_one"]
    /\ UNCHANGED <<backend, ctor, lazy, slot, csOwner, fn, op, cur, ost, gnew, res, ret, queue, hist>>

\* Guard::drop on `?` or unwind: store(Poisoned)
Pl_Guard_drop(t) ==
    /\ backend = "pl"
    /\ pc[t] = "finish"
    /\ res[t] # "ok"
    /\ word' = POISONED
    /\ pc' = [pc EXCEPT ![t] = "unpark_one"]
    /\ UNCHANGED <<backend, ctor, lazy, slot, csOwner, fn, op, cur, ost, gnew, res, ret, queue, hist>>

\* faulty variant: the guard wakes nobody
Pl_unpark_one_sets_nobody(parked) == {{}}

\* the sets of threads unpark_one(key) may resume: one parked thread, if any
Pl_unpark_one_sets(parked) == IF parked = {} THEN {{}} ELSE {{u} : u \in parked}

\* Guard::drop: unpark_one(key)
Pl_Guard_drop_unpark_one(t) ==
    /\ backend = "pl"
    /\ pc[t] = "unpark_one"
    /\ \E woken \in Pl_unpark_one_sets({u \in AllThreads : pc[u] = "parked"}) :
          pc' = [u \in AllThreads |->
                   IF u = t THEN "wret" ELSE IF u \in woken THEN "call" ELSE pc[u]]
    /\ UNCHANGED <<shared, fn, op, cur, ost, gnew, res, ret, queue, hist>>

\* -------------------------------- backend: examples/critical_section.rs
\* call: critical_section::with acquired; load and match
Cs_call(t) ==
    /\ backend = "cs"
    /\ pc[t] = "call"
    /\ csOwner = 0
    /\ CASE word = RUNNING ->
              \* panic!("reentrant once call"); the section is released on unwind
              /\ res' = [res EXCEPT ![t] = "panic"]
              /\ pc' = [pc EXCEPT ![t] = "wret"]
              /\ UNCHANGED <<csOwner, cur, ost>>
         [] word = COMPLETE ->
              /\ pc' = [pc EXCEPT ![t] = "wret"]
              /\ UNCHANGED <<csOwner, cur, ost, res>>
         [] OTHER ->
              /\ csOwner' = t
              /\ pc' = [pc EXCEPT ![t] = "store"]
              /\ cur' = [cur EXCEPT ![t] = word]
              /\ ost' = [ost EXCEPT ![t] = (word = POISONED)]
              /\ UNCHANGED res
    /\ UNCHANGED <<backend, ctor, lazy, word, slot, fn, op, gnew, ret, queue, hist>>

\* faulty variant: the critical section ends once Running is stored
Cs_call_store_running_unlocked(t) ==
    /\ backend = "cs"
    /\ pc[t] = "store"
    /\ word' = RUNNING
    /\ csOwner' = 0
    /\ from' = [from EXCEPT ![t] = cur[t]]
    /\ pc' = [pc EXCEPT ![t] = "init"]
    /\ UNCHANGED <<backend, ctor, lazy, slot, fn, op, cur, ost, gnew, res, ret, queue,
                   calls, runs, ran, waited, made, writes, failable>>

\* call: store(Running) inside the critical section
Cs_call_store_running(t) ==
    /\ backend = "cs"
    /\ pc[t] = "store"
    /\ word' = RUNNING
    /\ from' = [from EXCEPT ![t] = cur[t]]
    /\ pc' = [pc EXCEPT ![t] = "init"]
    /\ UNCHANGED <<backend, ctor, lazy, slot, csOwner, fn, op, cur, ost, gnew, res, ret, queue,
                   calls, runs, ran, waited, made, writes, failable>>

\* call: guard installed, f(&once_state) runs
Cs_call_f(t) ==
    /\ backend = "cs"
    /\ pc[t] = "init"
    /\ OnceLock_call_closure(t)
    /\ pc' = [pc EXCEPT ![t] = "finish"]
    /\ UNCHANGED <<backend, ctor, word, csOwner, fn, op, cur, ost, gnew, ret, queue,
                   calls, waited, from, failable>>

\* call: mem::forget(guard); store(Complete); the critical section ends
Cs_call_complete(t) ==
    /\ backend = "cs"
    /\ pc[t] = "finish"
    /\ res[t] = "ok"
    /\ word' = COMPLETE
    /\ csOwner' = 0
    /\ pc' = [pc EXCEPT ![t] = "wret"]
    /\ UNCHANGED <<backend, ctor, lazy, slot, fn, op, cur, ost, gnew, res, ret, queue, hist>>

\* Guard::drop on `?` or unwind: store(Poisoned); the critical section ends
Cs_Guard_drop(t) ==
    /\ backend = "cs"
    /\ pc[t] = "finish"
    /\ res[t] # "ok"
    /\ word' = POISONED
    /\ csOwner' = 0
    /\ pc' = [pc EXCEPT ![t] = "wret"]
    /\ UNCHANGED <<backend, ctor, lazy, slot, fn, op, cur, ost, gnew, res, ret, queue, hist>>

\* f(&once_state) calls back into the same cell: the inner get_or_try_init
\* takes the fast path if the cell is completed, else enters once.call
Cs_closure_reenters(t) ==
    /\ backend = "cs"
    /\ pc[t] = "init"
    /\ pc' = [pc EXCEPT ![t] = IF is_completed THEN "init" ELSE "inner"]
    /\ UNCHANGED <<shared, fn, op, cur, ost, gnew, res, ret, queue, hist>>

\* call, entered from inside f: critical_section::with nests for the thread
\* that holds the section; load and match.  On Running the panic unwinds
\* through the inner call and through f into the outer call's guard.  An inner
\* call that completes at once returns into f; one that would open an episode
\* of its own is marked "nested".
Cs_call_reentrant(t) ==
    /\ backend = "cs"
    /\ pc[t] = "inner"
    /\ csOwner \in {0, t}
    /\ cur' = [cur EXCEPT ![t] = word]
    /\ CASE word = RUNNING ->
              /\ res' = [res EXCEPT ![t] = "panic"]
              /\ pc' = [pc EXCEPT ![t] = "finish"]
              /\ runs' = runs + 1
              /\ ran' = [ran EXCEPT ![t] = TRUE]
         [] word = COMPLETE ->
              /\ pc' = [pc EXCEPT ![t] = "init"]
              /\ UNCHANGED <<res, runs, ran>>
         [] OTHER ->
              /\ pc' = [pc EXCEPT ![t] = "nested"]
              /\ UNCHANGED <<res, runs, ran>>
    /\ UNCHANGED <<shared, fn, op, ost, gnew, ret, queue,
                   calls, waited, from, made, writes, failable>>

\* ------------------------------------------------ wrapper: OnceCell
\* OnceCell::get, the same text as OnceLock::get
OnceCell_get_results ==
    IF is_completed
    THEN IF slot = NoneV
         THEN {Absent} \cup {Some(v) : v \in get_unchecked(slot)}
         ELSE {Some(v) : v \in get_unchecked(slot)}
    ELSE {Absent}

OnceCell_get(t) ==
    /\ backend = "rawspin"
    /\ pc[t] = "idle"
    /\ BeginCall(t, "ok")
    /\ \E r \in OnceCell_get_results : ret' = [ret EXCEPT ![t] = r]
    /\ UNCHANGED <<shared, pc, fn, op, cur, ost, gnew, res, queue>>

\* OnceCell::get_or_try_init: fast path through get(), else get_or_try_init_slow
OnceCell_get_or_try_init(t, f) ==
    /\ backend = "rawspin"
    /\ pc[t] = "idle"
    /\ BeginCall(t, f)
    /\ \E r \in OnceCell_get_results :
          IF r.kind = "some"
          THEN /\ ret' = [ret EXCEPT ![t] = Ok(r.v)]
               /\ UNCHANGED <<pc, fn, op>>
          ELSE EnterCall(t, "get_or_try_init", f)
    /\ UNCHANGED <<shared, cur, ost, gnew, res, queue>>

\* OnceCell::set up to the backend call
OnceCell_set(t) ==
    /\ backend = "rawspin"
    /\ pc[t] = "idle"
    /\ BeginCall(t, "ok")
    /\ \E r \in OnceCell_get_results :
          IF r.kind = "some"
          THEN /\ ret' = [ret EXCEPT ![t] = SetErr(ValueOf(t))]
               /\ UNCHANGED <<pc, fn, op>>
          ELSE EnterCall(t, "set", "ok")
    /\ UNCHANGED <<shared, cur, ost, gnew, res, queue>>

\* OnceCell::try_insert up to the backend call
OnceCell_try_insert(t) ==
    /\ backend = "rawspin"
    /\ pc[t] = "idle"
    /\ BeginCall(t, "ok")
    /\ \E r \in OnceCell_get_results :
          IF r.kind = "some"
          THEN /\ \E present \in get_unchecked(slot) :
                     ret' = [ret EXCEPT ![t] = InsertErr(present)]
               /\ UNCHANGED <<pc, fn, op>>
          ELSE EnterCall(t, "try_insert", "ok")
    /\ UNCHANGED <<shared, cur, ost, gnew, res, queue>>

\* the closure get_or_try_init_slow hands to once.call: runs f; Ok(value)
\* is stored in the slot and yields true, Err(e) is kept in `err` and yields false
OnceCell_closure(t) ==
    /\ runs' = runs + 1
    /\ ran' = [ran EXCEPT ![t] = TRUE]
    /\ res' = [res EXCEPT ![t] = fn[t]]
    /\ IF fn[t] = "ok"
       THEN /\ slot' = ValueOf(t)
            /\ made' = made \cup {ValueOf(t)}
            /\ writes' = writes + 1
       ELSE UNCHANGED <<slot, made, writes>>
    /\ UNCHANGED lazy

\* the closure OnceCell::set hands to once.call:
\*   let value = value.take().unwrap_unchecked(); *slot = Some(value); true
OnceCell_set_closure(t) ==
    /\ runs' = runs + 1
    /\ ran' = [ran EXCEPT ![t] = TRUE]
    /\ res' = [res EXCEPT ![t] = "ok"]
    /\ slot' = ValueOf(t)
    /\ made' = made \cup {ValueOf(t)}
    /\ writes' = writes + 1
    /\ UNCHANGED lazy

\* get_or_try_init_slow / set / try_insert after once.call(..) came back
OnceCell_results(t) ==
    CASE res[t] = "err" -> {Err(ErrorOf(t))}
      [] res[t] = "panic" -> {Panicked}
      [] op[t] = "set" -> IF res[t] = "ok" THEN {SetOk} ELSE {SetErr(ValueOf(t))}
      [] op[t] = "try_insert" ->
            IF res[t] = "ok" THEN {InsertOk(v) : v \in get_unchecked(slot)}
            ELSE {InsertErr(v) : v \in get_unchecked(slot)}
      [] OTHER -> {Ok(v) : v \in get_unchecked(slot)}

\* ---------------------------------------------------- wrapper: Once
OnceOps == {"call_once", "call_once_force", "try_call_once", "try_call_once_force"}

\* Once::new: raw: R::INIT, no value slot
Once_new(b) == [once |-> R_INCOMPLETE(b), value |-> NoneV]

\* call_once / call_once_force / try_call_once / try_call_once_force up to the
\* backend call: `if self.is_completed() { return }`, else raw.call(closure)
Once_call(t, o, f) ==
    /\ backend = "rawspin"
    /\ pc[t] = "idle"
    /\ BeginCall(t, f)
    /\ IF is_completed
       THEN /\ ret' = [ret EXCEPT ![t] = Unit]
            /\ UNCHANGED <<pc, fn, op>>
       ELSE EnterCall(t, o, f)
    /\ UNCHANGED <<shared, cur, ost, gnew, res, queue>>

\* the entry point panics when it is handed a poisoned OnceState
Once_refuses_poison(o) == o \in {"call_once", "try_call_once"}

\* the closure the Once entry points hand to raw.call.  The non-force ones
\* wrap f in `if state.is_poisoned() { panic!("Once poisoned") }`; the force
\* ones pass `state` on to f.
Once_closure(t) ==
    /\ IF Once_refuses_poison(op[t]) /\ ost[t]
       THEN /\ res' = [res EXCEPT ![t] = "once_poisoned"]
            /\ UNCHANGED <<runs, ran>>
       ELSE /\ res' = [res EXCEPT ![t] = fn[t]]
            /\ runs' = runs + 1
            /\ ran' = [ran EXCEPT ![t] = TRUE]
    /\ UNCHANGED <<slot, made, writes, lazy>>

\* () or Ok(()) unless the closure unwound or left an error behind
Once_results(t) ==
    CASE res[t] = "err" -> {Err(ErrorOf(t))}
      [] res[t] = "panic" -> {Panicked}
      [] res[t] = "once_poisoned" -> {OncePoisoned}
      [] OTHER -> {Unit}

\* the closure handed to the monomorphic raw.call, by entry point
OnceCell_call_closure(t) ==
    CASE op[t] \in {"set", "try_insert"} -> OnceCell_set_closure(t)
      [] op[t] \in OnceOps -> Once_closure(t)
      [] OTHER -> OnceCell_closure(t)

OnceCell_call_returned(t) ==
    /\ backend = "rawspin"
    /\ pc[t] = "wret"
    /\ op[t] \notin OnceOps
    /\ \E r \in OnceCell_results(t) : ret' = [ret EXCEPT ![t] = r]
    /\ LeaveCall(t)
    /\ UNCHANGED <<shared, queue, hist>>

Once_call_returned(t) ==
    /\ backend = "rawspin"
    /\ pc[t] = "wret"
    /\ op[t] \in OnceOps
    /\ \E r \in Once_results(t) : ret' = [ret EXCEPT ![t] = r]
    /\ LeaveCall(t)
    /\ UNCHANGED <<shared, queue, hist>>

\* ---------------------------------------------- backend: src/raw_spin.rs
RawSpin_compare_exchange(w, current) == w = current

\* the OnceState call builds for the closure: OnceState::new(); state.poison()
RawSpin_once_state(claimed) == TRUE

\* call: load and match
RawSpin_call(t) ==
    /\ backend = "rawspin"
    /\ pc[t] = "call"
    /\ CASE word = RS_Busy ->
              /\ pc' = [pc EXCEPT ![t] = "spin"]
              /\ waited' = [waited EXCEPT ![t] = TRUE]
              /\ UNCHANGED cur
         [] word = RS_Init ->
              /\ pc' = [pc EXCEPT ![t] = "wret"]
              /\ UNCHANGED <<cur, waited>>
         [] OTHER ->
              /\ pc' = [pc EXCEPT ![t] = "cas"]
              /\ cur' = [cur EXCEPT ![t] = word]
              /\ UNCHANGED waited
    /\ UNCHANGED <<shared, fn, op, ost, gnew, res, ret, queue, calls, runs, ran, from, made, writes, failable>>

\* wait_busy: leaves the loop once a load sees another state
RawSpin_wait_busy(t) ==
    /\ backend = "rawspin"
    /\ pc[t] = "spin"
    /\ word # RS_Busy
    /\ pc' = [pc EXCEPT ![t] = "call"]
    /\ UNCHANGED <<shared, fn, op, cur, ost, gnew, res, ret, queue, hist>>

\* call: compare_exchange(state, Busy); on success the OnceState and the
\* guard (new: Poison) are built
RawSpin_call_cas(t) ==
    /\ backend = "rawspin"
    /\ pc[t] = "cas"
    /\ IF RawSpin_compare_exchange(word, cur[t])
       THEN /\ word' = RS_Busy
            /\ pc' = [pc EXCEPT ![t] = "init"]
            /\ from' = [from EXCEPT ![t] = cur[t]]
            /\ ost' = [ost EXCEPT ![t] = RawSpin_once_state(cur[t])]
            /\ gnew' = [gnew EXCEPT ![t] = RS_Poison]
       ELSE /\ pc' = [pc EXCEPT ![t] = "call"]
            /\ UNCHANGED <<word, from, ost, gnew>>
    /\ UNCHANGED <<backend, ctor, lazy, slot, csOwner, fn, op, cur, res, ret, queue,
                   calls, runs, ran, waited, made, writes, failable>>

\* call: if f(&state) { guard.new = State::Init }
RawSpin_call_f(t) ==
    /\ backend = "rawspin"
    /\ pc[t] = "init"
    /\ OnceCell_call_closure(t)
    /\ gnew' = [gnew EXCEPT ![t] = IF res'[t] = "ok" THEN RS_Init ELSE @]
    /\ pc' = [pc EXCEPT ![t] = "finish"]
    /\ UNCHANGED <<backend, ctor, word, csOwner, fn, op, cur, ost, ret, queue,
                   calls, waited, from, failable>>

\* Guard::drop: store(self.new)
RawSpin_Guard_drop(t) ==
    /\ backend = "rawspin"
    /\ pc[t] = "finish"
    /\ word' = gnew[t]
    /\ pc' = [pc EXCEPT ![t] = "wret"]
    /\ UNCHANGED <<backend, ctor, lazy, slot, csOwner, fn, op, cur, ost, gnew, res, ret, queue, hist>>

RawSpinNext(t) ==
    \/ RawSpin_call(t)
    \/ RawSpin_wait_busy(t)
    \/ RawSpin_call_cas(t)
    \/ RawSpin_call_f(t)
    \/ RawSpin_Guard_drop(t)

\* -------------------------------------------- backend: examples/std.rs
Std_compare_exchange(w, current) == w = current

\* faulty variant: the node does not link to the nodes enqueued before it
Std_Waiter_unlinked(q) ==
    [thread |-> TRUE, signaled |-> FALSE, next |-> NULL, live |-> TRUE]

\* the Waiter that wait() builds on its stack for the queue value q
Std_Waiter(q) ==
    [thread |-> TRUE, signaled |-> FALSE, next |-> map_addr_strip(q), live |-> TRUE]

\* initialize_or_wait: the match on curr_queue's state bits, for thread t
\* holding q as its curr_queue
Std_match(t, q) ==
    /\ cur' = [cur EXCEPT ![t] = q]
    /\ CASE TagOf(addr(q)) = COMPLETE ->
              /\ pc' = [pc EXCEPT ![t] = "wret"]
              /\ UNCHANGED node
         [] TagOf(addr(q)) = RUNNING ->
              \* wait(queue, curr_queue) is entered and builds its node
              /\ pc' = [pc EXCEPT ![t] = "enq"]
              /\ node' = [node EXCEPT ![t] = Std_Waiter(q)]
         [] OTHER ->
              /\ pc' = [pc EXCEPT ![t] = "cas"]
              /\ UNCHANGED node

\* initialize_or_wait: queue.load(Acquire), then the match
Std_initialize_or_wait(t) ==
    /\ backend = "std"
    /\ pc[t] = "call"
    /\ Std_match(t, word)
    /\ UNCHANGED <<shared, fn, op, ost, gnew, res, ret, token, wtr, thr, hist>>

\* initialize_or_wait: compare_exchange(curr_queue, (curr_queue & !MASK) | RUNNING);
\* on success the guard (new_queue: POISONED_PTR) and the OnceState are built
Std_initialize_or_wait_cas(t) ==
    /\ backend = "std"
    /\ pc[t] = "cas"
    /\ IF Std_compare_exchange(word, cur[t])
       THEN /\ word' = map_addr_tag(cur[t], RUNNING)
            /\ pc' = [pc EXCEPT ![t] = "init"]
            /\ from' = [from EXCEPT ![t] = TagOf(addr(cur[t]))]
            /\ ost' = [ost EXCEPT ![t] = (TagOf(addr(cur[t])) = POISONED)]
            /\ gnew' = [gnew EXCEPT ![t] = POISONED_PTR]
            /\ UNCHANGED <<cur, node>>
       ELSE /\ Std_match(t, word)
            /\ UNCHANGED <<word, from, ost, gnew>>
    /\ UNCHANGED <<backend, ctor, lazy, slot, csOwner, fn, op, res, ret, token, wtr, thr,
                   calls, runs, ran, waited, made, writes, failable>>

\* faulty variant: the guard is defused whatever init returns
Std_init_always_complete(t) ==
    /\ backend = "std"
    /\ pc[t] = "init"
    /\ OnceLock_call_closure(t)
    /\ gnew' = [gnew EXCEPT ![t] = COMPLETE_PTR]
    /\ pc' = [pc EXCEPT ![t] = "finish"]
    /\ UNCHANGED <<backend, ctor, word, csOwner, fn, op, cur, ost, ret, queue,
                   calls, waited, from, failable>>

\* call / initialize_or_wait: if init(&once_state) { guard.new_queue = COMPLETE_PTR }
Std_init(t) ==
    /\ backend = "std"
    /\ pc[t] = "init"
    /\ OnceLock_call_closure(t)
    /\ gnew' = [gnew EXCEPT ![t] = IF res'[t] = "ok" THEN COMPLETE_PTR ELSE @]
    /\ pc' = [pc EXCEPT ![t] = "finish"]
    /\ UNCHANGED <<backend, ctor, word, csOwner, fn, op, cur, ost, ret, queue,
                   calls, waited, from, failable>>

\* faulty variant: the finishing store replaces the tag and keeps the queue bits
Std_Guard_drop_keep_queue(t) ==
    /\ backend = "std"
    /\ pc[t] = "finish"
    /\ word' = map_addr_tag(word, TagOf(addr(gnew[t])))
    /\ IF TagOf(addr(word)) = RUNNING
       THEN /\ wtr' = [wtr EXCEPT ![t] = map_addr_strip(word)]
            /\ pc' = [pc EXCEPT ![t] = "drain"]
            /\ UNCHANGED res
       ELSE /\ res' = [res EXCEPT ![t] = "panic"]
            /\ pc' = [pc EXCEPT ![t] = "wret"]
            /\ UNCHANGED wtr
    /\ UNCHANGED <<backend, ctor, lazy, slot, csOwner, fn, op, cur, ost, gnew, ret,
                   node, token, thr, hist>>

\* Guard::drop: queue.swap(new_queue); assert the displaced state is RUNNING;
\* `waiter` starts at the displaced head
Std_Guard_drop(t) ==
    /\ backend = "std"
    /\ pc[t] = "finish"
    /\ word' = gnew[t]
    /\ IF TagOf(addr(word)) = RUNNING
       THEN /\ wtr' = [wtr EXCEPT ![t] = map_addr_strip(word)]
            /\ pc' = [pc EXCEPT ![t] = "drain"]
            /\ UNCHANGED res
       ELSE \* assert_eq!(state, RUNNING) fails
            /\ res' = [res EXCEPT ![t] = "panic"]
            /\ pc' = [pc EXCEPT ![t] = "wret"]
            /\ UNCHANGED wtr
    /\ UNCHANGED <<backend, ctor, lazy, slot, csOwner, fn, op, cur, ost, gnew, ret,
                   node, token, thr, hist>>

\* Guard::drop, one turn of the loop up to the take of the handle:
\*   while !waiter.is_null() {
\*     next = (*waiter).next; thread = (*waiter).thread.take().unwrap();
\* From here on wtr[t] holds `next` and thr[t] names the node being served.
\* (A node whose owner has left wait() reads as an empty node.)
Std_Guard_drop_take(t) ==
    /\ backend = "std"
    /\ pc[t] = "drain"
    /\ IF wtr[t] = NULL
       THEN /\ pc' = [pc EXCEPT ![t] = "wret"]
            /\ UNCHANGED <<node, wtr, thr, res>>
       ELSE LET w == NodeOwner(wtr[t])
            IN IF node[w].thread
               THEN /\ node' = [node EXCEPT ![w].thread = FALSE]
                    /\ wtr' = [wtr EXCEPT ![t] = node[w].next]
                    /\ thr' = [thr EXCEPT ![t] = w]
                    /\ pc' = [pc EXCEPT ![t] = "signal"]
                    /\ UNCHANGED res
               ELSE \* unwrap() of an already taken handle
                    /\ res' = [res EXCEPT ![t] = "panic"]
                    /\ pc' = [pc EXCEPT ![t] = "wret"]
                    /\ UNCHANGED <<node, wtr, thr>>
    /\ UNCHANGED <<shared, fn, op, cur, ost, gnew, ret, token, hist>>

\* Guard::drop: (*waiter).signaled.store(true, Release); waiter = next
Std_Guard_drop_signal(t) ==
    /\ backend = "std"
    /\ pc[t] = "signal"
    /\ node' = [node EXCEPT ![thr[t]].signaled = TRUE]
    /\ pc' = [pc EXCEPT ![t] = "unpark"]
    /\ UNCHANGED <<shared, fn, op, cur, ost, gnew, res, ret, token, wtr, thr, hist>>

\* Guard::drop: thread.unpark() hands the thread its park token
Std_Guard_drop_unpark(t) ==
    /\ backend = "std"
    /\ pc[t] = "unpark"
    /\ token' = [token EXCEPT ![thr[t]] = TRUE]
    /\ thr' = [thr EXCEPT ![t] = 0]
    /\ pc' = [pc EXCEPT ![t] = "drain"]
    /\ UNCHANGED <<shared, fn, op, cur, ost, gnew, res, ret, node, wtr, hist>>

\* faulty variant: a failed exchange is always retried on the refreshed head
Std_wait_retry_always(t) ==
    /\ backend = "std"
    /\ pc[t] = "enq"
    /\ IF Std_compare_exchange(word, cur[t])
       THEN /\ word' = map_addr_or(NodeAddr(t), TagOf(addr(cur[t])))
            /\ pc' = [pc EXCEPT ![t] = "chk"]
            /\ waited' = [waited EXCEPT ![t] = TRUE]
            /\ UNCHANGED <<cur, node>>
       ELSE /\ cur' = [cur EXCEPT ![t] = word]
            /\ node' = [node EXCEPT ![t] = Std_Waiter(word)]
            /\ UNCHANGED <<pc, word, waited>>
    /\ UNCHANGED <<backend, ctor, lazy, slot, csOwner, fn, op, ost, gnew, res, ret, token, wtr, thr,
                   calls, runs, ran, from, made, writes, failable>>

\* faulty variant: the enqueue exchange stores the bare node address
Std_wait_untagged(t) ==
    /\ backend = "std"
    /\ pc[t] = "enq"
    /\ IF Std_compare_exchange(word, cur[t])
       THEN /\ word' = NodeAddr(t)
            /\ pc' = [pc EXCEPT ![t] = "chk"]
            /\ waited' = [waited EXCEPT ![t] = TRUE]
            /\ UNCHANGED <<cur, node>>
       ELSE /\ IF TagOf(addr(word)) # TagOf(addr(cur[t]))
               THEN /\ pc' = [pc EXCEPT ![t] = "call"]
                    /\ node' = [node EXCEPT ![t] = FreshNode]
                    /\ UNCHANGED cur
               ELSE /\ cur' = [cur EXCEPT ![t] = word]
                    /\ node' = [node EXCEPT ![t] = Std_Waiter(word)]
                    /\ UNCHANGED pc
            /\ UNCHANGED <<word, waited>>
    /\ UNCHANGED <<backend, ctor, lazy, slot, csOwner, fn, op, ost, gnew, res, ret, token, wtr, thr,
                   calls, runs, ran, from, made, writes, failable>>

\* wait: compare_exchange(curr_queue, me | curr_state).  On failure the
\* function returns if the state bits changed (initialize_or_wait then reloads
\* the queue), else it retries with a node rebuilt on the refreshed head.
Std_wait(t) ==
    /\ backend = "std"
    /\ pc[t] = "enq"
    /\ IF Std_compare_exchange(word, cur[t])
       THEN /\ word' = map_addr_or(NodeAddr(t), TagOf(addr(cur[t])))
            /\ pc' = [pc EXCEPT ![t] = "chk"]
            /\ waited' = [waited EXCEPT ![t] = TRUE]
            /\ UNCHANGED <<cur, node>>
       ELSE /\ IF TagOf(addr(word)) # TagOf(addr(cur[t]))
               THEN /\ pc' = [pc EXCEPT ![t] = "call"]
                    /\ node' = [node EXCEPT ![t] = FreshNode]
                    /\ UNCHANGED cur
               ELSE /\ cur' = [cur EXCEPT ![t] = word]
                    /\ node' = [node EXCEPT ![t] = Std_Waiter(word)]
                    /\ UNCHANGED pc
            /\ UNCHANGED <<word, waited>>
    /\ UNCHANGED <<backend, ctor, lazy, slot, csOwner, fn, op, ost, gnew, res, ret, token, wtr, thr,
                   calls, runs, ran, from, made, writes, failable>>

\* faulty variant: a signaled waiter takes the episode for completed and
\* returns from call without loading the state again
Std_wait_signaled_return(t) ==
    /\ backend = "std"
    /\ pc[t] = "chk"
    /\ IF node[t].signaled
       THEN /\ pc' = [pc EXCEPT ![t] = "wret"]
            /\ node' = [node EXCEPT ![t] = FreshNode]
       ELSE /\ pc' = [pc EXCEPT ![t] = "park"]
            /\ UNCHANGED node
    /\ UNCHANGED <<shared, fn, op, cur, ost, gnew, res, ret, token, wtr, thr, hist>>

\* wait: while !node.signaled.load(Acquire) { park() }; leaving the loop
\* ends wait and with it the node's lifetime
Std_wait_signaled(t) ==
    /\ backend = "std"
    /\ pc[t] = "chk"
    /\ IF node[t].signaled
       THEN /\ pc' = [pc EXCEPT ![t] = "call"]
            /\ node' = [node EXCEPT ![t] = FreshNode]
       ELSE /\ pc' = [pc EXCEPT ![t] = "park"]
            /\ UNCHANGED node
    /\ UNCHANGED <<shared, fn, op, cur, ost, gnew, res, ret, token, wtr, thr, hist>>

\* thread::park() returns consuming the token ...
Std_wait_park(t) ==
    /\ backend = "std"
    /\ pc[t] = "park"
    /\ token[t]
    /\ token' = [token EXCEPT ![t] = FALSE]
    /\ pc' = [pc EXCEPT ![t] = "chk"]
    /\ UNCHANGED <<shared, fn, op, cur, ost, gnew, res, ret, node, wtr, thr, hist>>

\* faulty variant: a park() that returns without a token ends wait()
Std_wait_park_spurious_leaves(t) ==
    /\ backend = "std"
    /\ pc[t] = "park"
    /\ ~token[t]
    /\ pc' = [pc EXCEPT ![t] = "call"]
    /\ node' = [node EXCEPT ![t] = FreshNode]
    /\ UNCHANGED <<shared, fn, op, cur, ost, gnew, res, ret, token, wtr, thr, hist>>

\* ... or spuriously, without one
Std_wait_park_spurious(t) ==
    /\ backend = "std"
    /\ pc[t] = "park"
    /\ ~token[t]
    /\ pc' = [pc EXCEPT ![t] = "chk"]
    /\ UNCHANGED <<shared, fn, op, cur, ost, gnew, res, ret, queue, hist>>

StdNext(t) ==
    \/ Std_initialize_or_wait(t)
    \/ Std_initialize_or_wait_cas(t)
    \/ Std_init(t)
    \/ Std_Guard_drop(t)
    \/ Std_Guard_drop_take(t)
    \/ Std_Guard_drop_signal(t)
    \/ Std_Guard_drop_unpark(t)
    \/ Std_wait(t)
    \/ Std_wait_signaled(t)
    \/ Std_wait_park(t)
    \/ Std_wait_park_spurious(t)

PlNext(t) ==
    \/ Pl_acquire(t)
    \/ Pl_acquire_park(t)
    \/ Pl_acquire_cas(t)
    \/ Pl_call(t)
    \/ Pl_call_complete(t)
    \/ Pl_call_unpark_all(t)
    \/ Pl_Guard_drop(t)
    \/ Pl_Guard_drop_unpark_one(t)

CsNext(t) ==
    \/ Cs_call(t)
    \/ Cs_call_store_running(t)
    \/ Cs_call_f(t)
    \/ Cs_call_complete(t)
    \/ Cs_Guard_drop(t)

SpinNext(t) ==
    \/ Spin_try_acquire(t)
    \/ Spin_wait_while_running(t)
    \/ Spin_try_acquire_cas(t)
    \/ Spin_call(t)
    \/ Spin_finish_init(t)
    \/ Spin_Guard_drop(t)

WrapperNext(t) ==
    \/ OnceLock_get(t)
    \/ \E f \in Outcomes : OnceLock_get_or_try_init(t, f)
    \/ OnceLock_call_returned(t)
    \/ OnceCell_get(t)
    \/ \E f \in Outcomes : OnceCell_get_or_try_init(t, f)
    \/ OnceCell_call_returned(t)

Next ==
    \E t \in Threads :
        \/ WrapperNext(t)
        \/ SpinNext(t)
        \/ PlNext(t)
        \/ CsNext(t)
        \/ RawSpinNext(t)
        \/ StdNext(t)

Spec == Init /\ [][Next]_vars

\* every step a thread takes inside a call it has begun
Step(t) ==
    \/ OnceLock_call_returned(t)
    \/ OnceCell_call_returned(t)
    \/ SpinNext(t)
    \/ PlNext(t)
    \/ CsNext(t)
    \/ RawSpinNext(t)
    \/ StdNext(t)

\* preemptive OS threads: a thread that can take a step eventually takes one
\* (an initializer that has started returns or unwinds)
FairSpec == Spec /\ \A t \in Threads : WF_vars(Step(t))

\* ------------------------------- the cell with every shared entry point
\* get, get_or_init, get_or_try_init, set and try_insert in any interleaving
CellNext ==
    \E t \in Threads :
        \/ WrapperNext(t)
        \/ OnceLock_set(t)
        \/ OnceLock_try_insert(t)
        \/ OnceCell_set(t)
        \/ OnceCell_try_insert(t)
        \/ SpinNext(t)
        \/ PlNext(t)
        \/ CsNext(t)
        \/ RawSpinNext(t)
        \/ StdNext(t)

CellSpec == Init /\ [][CellNext]_vars

\* --------------------------------------------- Once over src/raw_spin.rs
\* the closure kinds an entry point accepts: F: FnOnce() may return or
\* unwind, F: FnOnce() -> Result<(), E> may also return Err
Once_closures(o) ==
    IF o \in {"call_once", "call_once_force"} THEN {"ok", "panic"} ELSE Outcomes

OnceInit ==
    /\ backend = "rawspin"
    /\ ctor = "new"
    /\ word = Once_new("rawspin").once
    /\ slot = Once_new("rawspin").value
    /\ lazy = "absent"
    /\ Fresh

OnceNext ==
    \E t \in Threads :
        \/ \E o \in OnceOps : \E f \in Once_closures(o) : Once_call(t, o, f)
        \/ Once_call_returned(t)
        \/ RawSpinNext(t)

OnceSpec == OnceInit /\ [][OnceNext]_vars

\* ------------------------------- the self-hosted queue backend by itself
StdInit ==
    /\ \E c \in Ctors : Constructed("std", c)
    /\ lazy = "absent"
    /\ Fresh

StdOnlyNext ==
    \E t \in Threads :
        \/ \E f \in Outcomes : OnceLock_get_or_try_init(t, f)
        \/ OnceLock_call_returned(t)
        \/ StdNext(t)

\* preemptive OS threads, as in FairSpec
StdFairSpec == StdInit /\ [][StdOnlyNext]_vars /\ \A t \in Threads : WF_vars(Step(t))

\* --------------------------------- the queue-service backend by itself
PlInit ==
    /\ \E c \in Ctors : Constructed("pl", c)
    /\ lazy = "absent"
    /\ Fresh

PlOnlyNext ==
    \E t \in Threads :
        \/ \E f \in Outcomes : OnceLock_get_or_try_init(t, f)
        \/ OnceLock_call_returned(t)
        \/ PlNext(t)

\* preemptive OS threads, as in FairSpec; a parked thread has no step of its own
PlFairSpec == PlInit /\ [][PlOnlyNext]_vars /\ \A t \in Threads : WF_vars(Step(t))

\* ------------------------------------------------------------ LazyLock
\* LazyLock::new(init): cell: OnceLock::new(), init: Cell::new(Some(init));
\* the stored initializer either returns a value or unwinds
LazyInit ==
    /\ \E b \in Backends \ {"rawspin"} : Constructed(b, "new")
    /\ lazy \in {"ok", "panic"}
    /\ Fresh

\* LazyLock::force (and Deref::deref): this.cell.get_or_init(closure)
LazyLock_force(t) ==
    /\ pc[t] = "idle"
    /\ BeginCall(t, "ok")
    /\ OnceLock_get_or_try_init_entry(t, "force", "ok")

\* LazyLock::force_mut (and DerefMut::deref_mut).  `&mut self`: no other
\* borrow of the LazyLock is alive, so no thread is inside a call.
\*   if this.cell.get_mut().is_none() {
\*       let init = this.init.take().unwrap_unchecked();
\*       this.cell = OnceLock::with_value(init());
\*   }
\*   this.cell.get_mut().unwrap_unchecked()
LazyLock_force_mut(t) ==
    /\ \A u \in AllThreads : pc[u] = "idle"
    /\ calls < MaxCalls
    /\ CountCall(t, "ok")
    /\ IF slot # NoneV
       THEN /\ ret' = [ret EXCEPT ![t] = Ok(slot)]
            /\ UNCHANGED <<word, slot, lazy, runs, made, writes>>
       ELSE /\ lazy' = "taken"
            /\ runs' = runs + 1
            /\ \E out \in (CASE lazy = "ok" -> {LazyValue}
                             [] lazy = "panic" -> {NoneV}
                             [] OTHER -> {NoneV, Garbage}) :
                  IF out = NoneV
                  THEN /\ ret' = [ret EXCEPT ![t] = Panicked]
                       /\ UNCHANGED <<word, slot, made, writes>>
                  ELSE /\ word' = OnceLock_with_value(backend, out).once
                       /\ slot' = OnceLock_with_value(backend, out).value
                       /\ made' = made \cup {out}
                       /\ writes' = writes + 1
                       /\ ret' = [ret EXCEPT ![t] = Ok(out)]
    /\ UNCHANGED <<backend, ctor, csOwner, pc, fn, op, cur, ost, gnew, res, queue, from>>

LazyNext ==
    \E t \in Threads :
        \/ LazyLock_force(t)
        \/ LazyLock_force_mut(t)
        \/ OnceLock_call_returned(t)
        \/ SpinNext(t)
        \/ PlNext(t)
        \/ CsNext(t)
        \/ StdNext(t)

LazySpec == LazyInit /\ [][LazyNext]_vars

\* ------------------- the critical-section backend with re-entrant closures
CsInit ==
    /\ \E c \in Ctors : Constructed("cs", c)
    /\ lazy = "absent"
    /\ Fresh

CsStep(t) ==
    \/ OnceLock_call_returned(t)
    \/ CsNext(t)
    \/ Cs_call_reentrant(t)

CsReentrantNext ==
    \E t \in Threads :
        \/ OnceLock_get(t)
        \/ \E f \in Outcomes : OnceLock_get_or_try_init(t, f)
        \/ Cs_closure_reenters(t)
        \/ CsStep(t)

\* a thread inside critical_section::with is not preempted for ever
CsSpec == CsInit /\ [][CsReentrantNext]_vars /\ \A t \in Threads : WF_vars(CsStep(t))

\* ------------------------------------- the tagged queue word by itself
\* One thread holds a node pointer `me` (in gnew) and a state `curr_state`
\* (in from); it builds the word, then strips it (into wtr) and reads its
\* state back (into cur), in either order.
PtrInit ==
    /\ \E c \in Ctors : Constructed("std", c)
    /\ lazy = "absent"
    /\ csOwner = 0
    /\ \E l \in Threads, me \in AlignedAddrs, curr_state \in 0..STATE_MASK :
          /\ pc = [t \in AllThreads |-> IF t = l THEN "ptr_in" ELSE "idle"]
          /\ gnew = [t \in AllThreads |-> IF t = l THEN me ELSE 0]
          /\ from = [t \in AllThreads |-> IF t = l THEN curr_state ELSE INCOMPLETE]
    /\ fn = [t \in AllThreads |-> "ok"]
    /\ op = [t \in AllThreads |-> "none"]
    /\ cur = [t \in AllThreads |-> 0]
    /\ ost = [t \in AllThreads |-> FALSE]
    /\ res = [t \in AllThreads |-> "none"]
    /\ ret = [t \in AllThreads |-> NoRet]
    /\ node = [t \in AllThreads |-> FreshNode]
    /\ token = [t \in AllThreads |-> FALSE]
    /\ wtr = [t \in AllThreads |-> NULL]
    /\ thr = [t \in AllThreads |-> 0]
    /\ calls = 0
    /\ runs = 0
    /\ ran = [t \in AllThreads |-> FALSE]
    /\ waited = [t \in AllThreads |-> FALSE]
    /\ made = {}
    /\ writes = 0
    /\ failable = FALSE

\* strict::map_addr(me, |q| q | curr_state)
Ptr_combine(t) ==
    /\ pc[t] = "ptr_in"
    /\ word' = with_addr(gnew[t], BitOr(addr(gnew[t]), from[t]))
    /\ pc' = [pc EXCEPT ![t] = "ptr_word"]
    /\ UNCHANGED <<backend, ctor, lazy, slot, csOwner, fn, op, cur, ost, gnew, res, ret,
                   queue, hist>>

\* strict::map_addr(queue, |q| q & !STATE_MASK)
Ptr_strip(t) ==
    /\ pc[t] \in {"ptr_word", "ptr_state"}
    /\ wtr' = [wtr EXCEPT ![t] = with_addr(word, BitAnd(addr(word), BitNot(STATE_MASK)))]
    /\ pc' = [pc EXCEPT ![t] = IF pc[t] = "ptr_word" THEN "ptr_waiter" ELSE "ptr_done"]
    /\ UNCHANGED <<shared, fn, op, cur, ost, gnew, res, ret, node, token, thr, hist>>

\* strict::addr(queue) & STATE_MASK
Ptr_state(t) ==
    /\ pc[t] \in {"ptr_word", "ptr_waiter"}
    /\ cur' = [cur EXCEPT ![t] = BitAnd(addr(word), STATE_MASK)]
    /\ pc' = [pc EXCEPT ![t] = IF pc[t] = "ptr_word" THEN "ptr_state" ELSE "ptr_done"]
    /\ UNCHANGED <<shared, fn, op, ost, gnew, res, ret, queue, hist>>

PtrNext ==
    \E t \in Threads :
        \/ Ptr_combine(t)
        \/ Ptr_strip(t)
        \/ Ptr_state(t)

PtrSpec == PtrInit /\ [][PtrNext]_vars

\* ------------------------------------------- the demo programs (main)
\* examples/{spin,parking_lot,std,critical_section}.rs: one thread calls
\* get_or_init and then meets the others at the barrier; the others pass the
\* barrier and then call get_or_init; every thread asserts what it was handed
Demos == {"spin", "pl", "std", "cs"}

\* the string the first thread's initializer builds, by program
Main_leader_string(b) == IF b = "spin" THEN "leader" ELSE "follower"

\* the contents of the String an initializer of the demo produced
Main_string(b, v) == IF v = ValueOf(Leader) THEN Main_leader_string(b) ELSE "follower"

\* assert_eq!(s, "leader"): a reference that no initializer produced (a read of
\* the empty slot) may compare either way
Main_assert_eq(b, v) ==
    IF v \in InitValues
    THEN {IF Main_string(b, v) = "leader" THEN "passed" ELSE "failed"}
    ELSE {"passed", "failed"}

DemoInit ==
    /\ \E b \in Demos : Constructed(b, "new")
    /\ lazy = "absent"
    /\ FreshAt("spawned")

\* first thread: value.get_or_init(|| String::from(..))
Main_leader_get_or_init ==
    /\ pc[Leader] = "spawned"
    /\ StartCall(Leader, "ok")
    /\ OnceLock_get_or_try_init_entry(Leader, "get_or_try_init", "ok")

\* first thread: barrier.wait(), reached once get_or_init has returned
Main_leader_barrier ==
    /\ pc[Leader] = "idle"
    /\ ret[Leader].kind = "ok"
    /\ pc' = [pc EXCEPT ![Leader] = "barrier"]
    /\ UNCHANGED <<shared, fn, op, cur, ost, gnew, res, ret, queue, hist>>

\* other threads: barrier.wait() is their first statement
Main_follower_barrier(t) ==
    /\ t \in Threads
    /\ pc[t] = "spawned"
    /\ pc' = [pc EXCEPT ![t] = "barrier"]
    /\ UNCHANGED <<shared, fn, op, cur, ost, gnew, res, ret, queue, hist>>

\* Barrier::new(4): the last thread to arrive releases all of them
Main_barrier_release ==
    /\ \A t \in AllThreads : pc[t] = "barrier"
    /\ pc' = [t \in AllThreads |-> "released"]
    /\ UNCHANGED <<shared, fn, op, cur, ost, gnew, res, ret, queue, hist>>

\* other threads: value.get_or_init(|| String::from("follower"))
Main_follower_get_or_init(t) ==
    /\ t \in Threads
    /\ pc[t] = "released"
    /\ StartCall(t, "ok")
    /\ OnceLock_get_or_try_init_entry(t, "get_or_try_init", "ok")

\* assert_eq!(s, "leader"), the last statement of every thread
Main_assert(t) ==
    /\ \/ t = Leader /\ pc[t] = "released"
       \/ t \in Threads /\ pc[t] = "idle" /\ ret[t].kind = "ok"
    /\ \E outcome \in Main_assert_eq(backend, ret[t].v) :
          pc' = [pc EXCEPT ![t] = outcome]
    /\ UNCHANGED <<shared, fn, op, cur, ost, gnew, res, ret, queue, hist>>

\* The barrier puts the first thread's whole call before the others' calls and
\* no initializer of the demo fails: of the backends' steps only those of an
\* uncontended, successful call are ever enabled, and only they are listed.
DemoNext ==
    \/ Main_leader_get_or_init
    \/ Main_leader_barrier
    \/ Main_barrier_release
    \/ \E t \in AllThreads :
        \/ Main_follower_barrier(t)
        \/ Main_follower_get_or_init(t)
        \/ Main_assert(t)
        \/ OnceLock_call_returned(t)
        \/ Spin_try_acquire(t)
        \/ Spin_try_acquire_cas(t)
        \/ Spin_call(t)
        \/ Spin_finish_init(t)
        \/ Pl_acquire(t)
        \/ Pl_acquire_cas(t)
        \/ Pl_call(t)
        \/ Pl_call_complete(t)
        \/ Pl_call_unpark_all(t)
        \/ Cs_call(t)
        \/ Cs_call_store_running(t)
        \/ Cs_call_f(t)
        \/ Cs_call_complete(t)
        \/ Std_initialize_or_wait(t)

DemoSpec == DemoInit /\ [][DemoNext]_vars

\* ------------------------------------------------------------ vocabulary
\* the backend's lifecycle state
State == TagOf(word)

\* thread t owns an exclusive episode: it has claimed Running and has not yet
\* stored a terminal state
InEpisode(t) == pc[t] \in {"init", "finish"}
Owners == {t \in Threads : InEpisode(t)}

\* thread t is held back by another thread's episode
Waiting(t) == pc[t] \in {"spin", "parked", "park", "chk"}

\* thread t's episode ends with this step
EndsEpisode(t) == InEpisode(t) /\ ~InEpisode(t)'

Returned(t) == pc[t] = "idle" /\ ret[t].kind # "none"

\* -------------------------------------------------------------- claims

\* C1: N threads calling get_or_init on a freshly created cell with
\* initializers that all succeed execute exactly one initializer body, for
\* every backend.
C1_ExactlyOnce ==
    (ctor = "new" /\ ~failable) =>
        /\ runs <= 1
        /\ (\E t \in Threads : ret[t].kind = "ok") => runs = 1

\* C2: in every reachable state of every backend at most one thread is inside
\* an exclusive episode.
C2_MutualExclusion == Cardinality(Owners) <= 1

C2_Witness ==
    \E t, u \in Threads : t # u /\ pc[t] = "init" /\ pc[u] = "cas"

\* C3: the lifecycle state only changes Incomplete->Running, Poisoned->Running,
\* Running->Complete or Running->Poisoned, and Complete never changes again.
AllowedTransitions ==
    {<<INCOMPLETE, RUNNING>>, <<POISONED, RUNNING>>,
     <<RUNNING, COMPLETE>>, <<RUNNING, POISONED>>}

C3_Transitions ==
    [][/\ State' # State => <<State, State'>> \in AllowedTransitions
       /\ State = COMPLETE => State' = COMPLETE]_vars

C3_Witness ==
    /\ State = COMPLETE
    /\ \E t \in Threads : from[t] = POISONED /\ ran[t] /\ ret[t].kind = "ok"
    /\ \E u \in Threads : ret[u].kind = "some"

\* C4: when N threads raced get_or_init on the same fresh cell and all calls
\* have returned, every caller was handed the same value, the one produced by
\* the single initializer that ran.
C4_Agreement ==
    (ctor = "new" /\ ~failable /\ \A t \in Threads : pc[t] = "idle") =>
        \A t, u \in Threads :
            (ret[t].kind = "ok" /\ ret[u].kind = "ok") =>
                /\ ret[t].v = ret[u].v
                /\ made = {ret[t].v}

\* C5: once the backend is Complete, is_completed stays true, a call(f)
\* returns Ok without invoking f and without blocking, and get / get_or_init
\* return the stored value without invoking the initializer.
C5_CompleteFastPath ==
    [][is_completed =>
        /\ is_completed'
        /\ runs' = runs
        /\ slot' = slot
        /\ \A t \in Threads :
            /\ pc[t] = "idle" => pc'[t] = "idle"
            /\ (pc[t] = "idle" /\ ret'[t] # ret[t]) =>
                   ret'[t].kind \in {"ok", "some"} /\ ret'[t].v = slot
            /\ (pc[t] = "call" /\ pc'[t] # "call") =>
                   pc'[t] = "wret" /\ res'[t] = "none"
            /\ (pc[t] = "wret" /\ res[t] = "none" /\ pc'[t] = "idle") =>
                   ret'[t] = Ok(slot)]_vars

\* a thread that is handed an Err is handed its own closure's error, in a call
\* that ran that closure
C6_ErrToRunnerOnly ==
    \A t \in Threads : ret[t].kind = "err" => (ret[t].v = ErrorOf(t) /\ ran[t])

\* the step that ends an episode whose closure returned Err stores Poisoned
C6_ErrPoisons ==
    \A t \in Threads : (EndsEpisode(t) /\ res[t] = "err") => State' = POISONED

\* C6: if the initializer that runs in an episode returns Err, the episode
\* ends with the state Poisoned (not Complete, not Running), and the error is
\* returned to the thread that ran that initializer and to no other thread.
C6_ErrPoisonsAndStaysLocal == []C6_ErrToRunnerOnly /\ [][C6_ErrPoisons]_vars

C6_Witness ==
    \E t, u \in Threads :
        /\ t # u
        /\ ret[t] = Err(ErrorOf(t))
        /\ waited[u]
        /\ ret[u].kind = "ok"

\* C7 (as stated): a thread whose call found another thread's episode in
\* progress and waited for it returns Ok without ever invoking its own closure,
\* whether that episode ended Complete or Poisoned.
C7_WaiterNeverRuns ==
    \A t \in Threads :
        waited[t] => (~ran[t] /\ (Returned(t) => ret[t].kind = "ok"))

\* C7 (amended): a thread that waited on another thread's episode invokes its
\* own closure only in an episode it claimed from Poisoned; if it returns
\* without having invoked it, the state is Complete and it returns Ok with the
\* stored value.
C7_WaiterRunsOnlyAfterPoison ==
    \A t \in Threads :
        waited[t] =>
            /\ ran[t] => from[t] = POISONED
            /\ (Returned(t) /\ ~ran[t]) =>
                   (State = COMPLETE /\ ret[t] = Ok(slot))

C7_Witness ==
    \E t \in Threads :
        waited[t] /\ ran[t] /\ from[t] = POISONED /\ Returned(t)

\* the cell is or has been Poisoned
Recovering == State = POISONED \/ \E u \in Threads : from[u] = POISONED

\* while recovering, one owner at most, and a value handed out is the stored one
C8_RecoveryState ==
    Recovering =>
        /\ Cardinality(Owners) <= 1
        /\ \A t \in Threads :
               ret[t].kind \in {"ok", "some"} =>
                   (State = COMPLETE /\ ret[t].v = slot /\ slot \in made)

\* how an episode may end: failure poisons, success after poison completes
C8_RecoveryStep ==
    \A t \in Threads :
        EndsEpisode(t) =>
            /\ res[t] # "ok" => State' = POISONED
            /\ (res[t] = "ok" /\ from[t] = POISONED) =>
                   (State' = COMPLETE /\ slot' = ValueOf(t))

\* C8: a failing initializer leaves the cell Poisoned; an initializer that
\* then succeeds in an episode claimed from Poisoned makes it Complete with its
\* value in the slot, every caller that is handed a value afterwards gets that
\* value, and during the recovery no two initializers run concurrently.
C8_PoisonAndRecover == []C8_RecoveryState /\ [][C8_RecoveryStep]_vars

C8_Witness ==
    \E t, u \in Threads :
        /\ t # u
        /\ from[u] = POISONED /\ ran[u] /\ ret[u] = Ok(ValueOf(u))
        /\ ret[t] = Ok(ValueOf(u))
        /\ State = COMPLETE

\* the state is Running only while its owner is inside call
C9_RunningHasOwner == State = RUNNING => Owners # {}

\* what the guard stores when the episode ends
C9_GuardStep ==
    \A t \in Threads :
        EndsEpisode(t) =>
            /\ res[t] \in {"err", "panic"} => State' = POISONED
            /\ res[t] = "ok" => State' = COMPLETE

C10_PoisonFlag ==
    \A t \in Threads : pc[t] = "init" => (ost[t] = (from[t] = POISONED))

\* C11: Once::call_once and try_call_once abort with the panic "Once poisoned"
\* exactly when the episode they run in was claimed from Poisoned, and then
\* leave the Once Poisoned; on a Once that was never poisoned they run f and a
\* returning f makes the Once Complete.
C11_OncePoisonPanic ==
    \A t \in Threads :
        (pc[t] = "finish" /\ Once_refuses_poison(op[t])) =>
            /\ (res[t] = "once_poisoned") <=> (from[t] = RS_Poison)
            /\ res[t] = "once_poisoned" => gnew[t] = RS_Poison
            /\ from[t] = RS_Empty => (ran[t] /\ (fn[t] = "ok" => gnew[t] = RS_Init))

\* C12: in every reachable state of a OnceLock / OnceCell, whatever the
\* interleaving of get, set, try_insert, get_or_init and get_or_try_init, the
\* value slot holds a value if and only if the backend's is_completed() is true.
C12_SlotIffComplete == (slot # NoneV) <=> is_completed

\* C13: for every backend the "not started" constant is an instance on which
\* is_completed() is false and whose first call runs the closure, and the
\* "done" constant one on which is_completed() is true and no closure ever
\* runs; so new().get() is None and with_value(v).get() is v with no
\* initializer run.
C13_Constants ==
    /\ calls = 0 => (is_completed <=> ctor = "with_value")
    /\ ctor = "with_value" =>
          /\ runs = 0
          /\ \A t \in Threads :
                /\ ret[t].kind # "absent"
                /\ ret[t].kind \in {"some", "ok"} => ret[t].v = WithValue
    /\ ctor = "new" =>
          \A t \in Threads :
              /\ ret[t].kind = "some" => ret[t].v \in made
              /\ ret[t].kind = "ok" => runs >= 1

\* the threads whose last call was a set that returned Ok(()) / returned at all
SetWinners == {t \in Threads : ret[t] = SetOk}
SetCallers == {t \in Threads : ret[t].kind \in {"set_ok", "set_err"}}

\* C14: set on a completed cell returns Err with the caller's own value and
\* leaves the stored value unchanged; when the only calls made on an empty cell
\* are sets by distinct threads and all have returned, exactly one returned
\* Ok(()), the cell holds that caller's value, and every other caller got Err
\* with its own value.
C14_SetOnce ==
    /\ \A t \in Threads : ret[t].kind = "set_err" => ret[t].v = ValueOf(t)
    /\ \A t \in SetWinners : is_completed /\ slot = ValueOf(t)
    /\ Cardinality(SetWinners) <= 1
    /\ ctor = "with_value" => (SetWinners = {} /\ slot = WithValue)
    /\ (/\ ctor = "new"
        /\ \A t \in Threads : pc[t] = "idle"
        /\ calls >= 1
        /\ calls = Cardinality(SetCallers)) => Cardinality(SetWinners) = 1

\* thread t is in wait(): about to enqueue its node, or enqueued and parked
StdFollower(t) == backend = "std" /\ pc[t] \in {"enq", "chk", "park"}

\* a follower that returns without having run its closure saw Complete, and
\* when no closure can fail no follower runs one
C15_FollowersSeeComplete ==
    \A t \in Threads :
        (backend = "std" /\ waited[t] /\ Returned(t)) =>
            /\ ~ran[t] => (State = COMPLETE /\ ret[t] = Ok(slot))
            /\ ~failable => ~ran[t]

C16_LeaderValueWins ==
    /\ \A t \in AllThreads : ret[t].kind = "ok" => ret[t].v = ValueOf(Leader)
    /\ made \subseteq {ValueOf(Leader)}
    /\ \A t \in Threads : ~ran[t]
    /\ (\E t \in AllThreads : ret[t].kind = "ok") => ran[Leader]

\* C17: over any number of force / deref calls on a LazyLock the stored
\* initializer is taken and executed exactly once, every force returns the
\* value it produced, and a force after completion leaves the initializer
\* slot alone.
C17_LazyOnce ==
    /\ runs <= 1
    /\ lazy = "taken" <=> runs = 1
    /\ \A t \in Threads : ret[t].kind = "ok" => (ret[t].v = LazyValue /\ runs = 1)

\* C18: in the critical-section backend a call made from inside the
\* initializer of the same instance observes Running and fails with the panic
\* "reentrant once call": it opens no episode of its own, it does not hang (the
\* outer call unwinds and returns the panic, never an Err), and a call that is
\* not made from inside the initializer never observes Running.
C18_ReentrantObservesRunning ==
    \A t \in Threads :
        /\ pc[t] = "inner" => (csOwner = t /\ word = RUNNING)
        /\ pc[t] # "nested"
        /\ (pc[t] \in {"finish", "wret"} /\ cur[t] = RUNNING) => res[t] = "panic"
        /\ (pc[t] = "call" /\ csOwner = 0) => word # RUNNING

C18_ReentrantPanics ==
    /\ []C18_ReentrantObservesRunning
    /\ \A t \in Threads : (pc[t] = "inner") ~> (ret[t] = Panicked)

\* a re-entrant call has panicked and its outer call has returned the panic
C18_Witness ==
    \E t \in Threads :
        /\ backend = "cs"
        /\ cur[t] = RUNNING
        /\ pc[t] = "wret"
        /\ res[t] = "panic"
        /\ word = POISONED

\* C19: for every 4-aligned node address (null included) and every state tag,
\* the word built from them strips back to the address and masks back to the
\* tag.
C19_TagRoundTrip ==
    \A t \in Threads :
        /\ pc[t] \in {"ptr_waiter", "ptr_done"} => wtr[t] = gnew[t]
        /\ pc[t] \in {"ptr_state", "ptr_done"} => cur[t] = from[t]

\* both halves computed for a non-null node and a non-zero tag
C19_Witness ==
    \E t \in Threads :
        /\ pc[t] = "ptr_done"
        /\ gnew[t] # NULL
        /\ from[t] = POISONED
        /\ word = gnew[t] + POISONED

\* C20: between construction and completion the slot is written exactly once,
\* by the thread that owns the Running episode and before Complete is stored;
\* nobody reads the slot while it is written, so whoever observed
\* is_completed() reads the installed value.
C20_SlotWrittenOnceByOwner ==
    /\ writes <= 1
    /\ is_completed => (slot # NoneV /\ writes = (IF ctor = "new" THEN 1 ELSE 0))
    /\ \A t \in Threads :
          (pc[t] = "finish" /\ res[t] = "ok") =>
              /\ State = RUNNING
              /\ Owners = {t}
              /\ writes = 1
    /\ \A t \in Threads :
          ret[t].kind \in {"some", "ok"} => (is_completed /\ ret[t].v = slot)

\* the owners of the nodes on the list that starts at address a
RECURSIVE Std_listN(_, _)
Std_listN(a, n) ==
    IF a = NULL \/ n = 0 THEN {}
    ELSE {NodeOwner(a)} \cup Std_listN(node[NodeOwner(a)].next, n - 1)

Std_list(a) == Std_listN(a, NumThreads + 1)

\* thread t has linked its node into the state word and has not left wait()
Linked(t) == backend = "std" /\ pc[t] \in {"chk", "park"}

\* thread d is draining the list its finishing swap displaced
Draining(d) == backend = "std" /\ pc[d] \in {"drain", "signal", "unpark"}

\* the places a linked node still to be served can be found in
HoldersOf(t) ==
    {d \in Threads : Draining(d) /\ t \in Std_list(wtr[d])}
        \cup (IF State = RUNNING /\ t \in Std_list(StripTag(word)) THEN {0} ELSE {})

\* C21: every node linked in during an episode is on the list displaced by
\* that episode's finishing swap (until then, on the list in the state word),
\* on exactly one such list; the drain finds the handle of every node it
\* reaches still in place, takes it, sets signaled and hands the owner one
\* unpark; no node is served twice, skipped or lost.
C21_DrainServesEachOnce ==
    /\ \A t \in Threads :
          /\ (Linked(t) /\ node[t].thread) =>
                (Cardinality(HoldersOf(t)) = 1 /\ ~node[t].signaled)
          /\ (Linked(t) /\ ~node[t].thread) =>
                /\ HoldersOf(t) = {}
                /\ ~node[t].signaled =>
                      Cardinality({d \in Threads : pc[d] = "signal" /\ thr[d] = t}) = 1
                /\ (node[t].signaled /\ pc[t] = "park") =>
                      (token[t] \/ \E d \in Threads : pc[d] = "unpark" /\ thr[d] = t)
          /\ Cardinality({d \in Threads : pc[d] = "signal" /\ thr[d] = t}) <= 1
    /\ \A d \in Threads :
          Draining(d) => \A t \in Std_list(wtr[d]) : Linked(t) /\ node[t].thread
    /\ State = RUNNING => \A t \in Std_list(StripTag(word)) : Linked(t) /\ node[t].thread

\* two waiters enqueued during one episode, both served by its drain
C21_Witness ==
    \E d, t, u \in Threads :
        /\ t # u
        /\ pc[d] = "unpark" /\ thr[d] = u /\ wtr[d] = NULL
        /\ Linked(t) /\ node[t].signaled /\ node[t].next = NodeAddr(u)
        /\ Linked(u) /\ node[u].signaled

\* what one pass of wait()'s loop may do to thread t's enqueue attempt
C22_EnqueueStep(t) ==
    (backend = "std" /\ pc[t] = "enq") =>
        /\ pc'[t] = "chk" =>
              /\ State = RUNNING /\ TagOf(word') = RUNNING
              /\ StripTag(word') = NodeAddr(t)
              /\ node[t].next = StripTag(word)
        /\ pc'[t] = "call" => (State # RUNNING /\ word' = word)
        /\ (pc'[t] = "enq" /\ cur'[t] # cur[t]) =>
              /\ State = RUNNING /\ word' = word
              /\ cur'[t] = word
              /\ node'[t].next = StripTag(word)

\* a node waiting to be served is on the list of a Running word or on the
\* list a finishing swap displaced: it was linked before the episode finished
C22_ParkedOnLiveEpisode ==
    \A t \in Threads :
        (Linked(t) /\ node[t].thread) =>
            \/ State = RUNNING /\ t \in Std_list(StripTag(word))
            \/ \E d \in Threads : Draining(d) /\ t \in Std_list(wtr[d])

\* C22: in wait() an enqueue exchange that fails because the tag is no longer
\* Running makes the thread give up enqueueing and go back to load the state;
\* one that fails with the tag still Running is retried with the refreshed
\* head as the node's next link; so a node is linked only into a word tagged
\* Running and no thread parks on an episode that has already finished.
C22_EnqueueOnlyWhileRunning ==
    /\ []C22_ParkedOnLiveEpisode
    /\ [][\A t \in Threads : C22_EnqueueStep(t)]_vars

\* a thread that prepared to enqueue found the episode finished and is back
\* at the load of the state, its node dropped
C22_Witness ==
    \E t \in Threads :
        /\ backend = "std"
        /\ pc[t] = "call"
        /\ TagOf(cur[t]) = RUNNING
        /\ ~waited[t]
        /\ State # RUNNING
        /\ node[t] = FreshNode

\* C23: in every reachable state of the self-hosted queue's state word the
\* address bits are null whenever the tag is Incomplete, Complete or Poisoned;
\* a non-null head address appears only under the tag Running.
C23_QueueOnlyWhileRunning ==
    backend = "std" => (State # RUNNING => StripTag(word) = NULL)

\* a terminal tag stands in the word while the list its swap displaced, with
\* a node on it, is still being drained
C23_Witness ==
    \E d \in Threads :
        /\ backend = "std"
        /\ pc[d] = "drain"
        /\ wtr[d] # NULL
        /\ State \in {COMPLETE, POISONED}
        /\ StripTag(word) = NULL

\* every node the state word or a drainer can still reach is in its owner's
\* live stack frame
C24_ReachableNodesLive ==
    /\ State = RUNNING =>
          \A t \in Std_list(StripTag(word)) : node[t].live /\ Linked(t)
    /\ \A d \in Threads :
          /\ Draining(d) => \A t \in Std_list(wtr[d]) : node[t].live /\ Linked(t)
          /\ pc[d] = "signal" =>
                (node[thr[d]].live /\ Linked(thr[d]) /\ ~node[thr[d]].signaled)

\* a thread leaves wait() with a linked node only once its flag is set, and
\* the flag is set only once the handle is taken and `next` is read
C24_NodeStep(t) ==
    /\ (Linked(t) /\ ~Linked(t)') => node[t].signaled
    /\ (~node[t].signaled /\ node'[t].signaled) => (~node[t].thread /\ wtr' = wtr)

\* C24: in the self-hosted queue backend no waiter node is accessed after its
\* storage may have been released: an enqueued thread leaves wait() only after
\* it saw its own signaled flag set, spurious park returns included, and the
\* drain reads a node's next link and takes its handle before it sets the
\* flag and does not touch the node afterwards.
C24_NoUseAfterFree ==
    /\ []C24_ReachableNodesLive
    /\ [][\A t \in Threads : C24_NodeStep(t)]_vars

\* the owner of a signaled node has left wait() while the drainer that served
\* it still holds the handle it is about to unpark
C24_Witness ==
    \E d, t \in Threads :
        /\ backend = "std"
        /\ pc[d] = "unpark" /\ thr[d] = t
        /\ ~Linked(t)
        /\ ~node[t].live
        /\ waited[t]

\* the threads parked on the state cell's key
Pl_parked == {u \in Threads : backend = "pl" /\ pc[u] = "parked"}

\* thread t's unpark call returns with this step
Pl_unparks(t) == backend = "pl" /\ pc[t] \in {"unpark_all", "unpark_one"} /\ pc'[t] = "wret"

\* C25 (as stated): when an episode of the queue-service backend finishes in
\* either terminal state the owner issues an unpark-all, so every thread
\* parked on the key at that moment is woken and re-checks the state.
C25_FinishWakesAll ==
    [][\A t \in Threads :
          Pl_unparks(t) => \A u \in Pl_parked : pc'[u] = "call"]_vars

\* C25 (amended): the owner stores the terminal state and then unparks: after
\* Complete with unpark_all, which wakes every thread parked at that moment;
\* after Poisoned (the guard) with unpark_one, which wakes exactly one of the
\* parked threads, if there is one, and leaves the others parked; a woken
\* thread re-checks the state.
C25_FinishWakes ==
    [][\A t \in Threads :
          /\ (backend = "pl" /\ pc[t] = "finish" /\ pc'[t] # "finish") =>
                \/ word' = COMPLETE /\ pc'[t] = "unpark_all"
                \/ word' = POISONED /\ pc'[t] = "unpark_one"
          /\ (Pl_unparks(t) /\ pc[t] = "unpark_all") =>
                \A u \in Pl_parked : pc'[u] = "call"
          /\ (Pl_unparks(t) /\ pc[t] = "unpark_one") =>
                /\ Cardinality({u \in Pl_parked : pc'[u] = "call"}) =
                      (IF Pl_parked = {} THEN 0 ELSE 1)
                /\ \A u \in Pl_parked : pc'[u] \in {"call", "parked"}]_vars

\* a poisoning guard has woken one of two parked threads; the other sleeps on
C25_Witness ==
    \E t, u, w \in Threads :
        /\ backend = "pl"
        /\ pc[t] = "wret" /\ res[t] # "ok"
        /\ pc[u] = "parked"
        /\ pc[w] = "call" /\ waited[w]
        /\ word = POISONED

\* park() puts a thread to sleep only while the state is Running
C26_ParkStep(t) ==
    (backend = "pl" /\ pc[t] = "park" /\ pc'[t] = "parked") => word = RUNNING

\* C26: in the queue-service backend, initializers terminating and scheduling
\* fair, every thread that calls call eventually returns: no thread goes to
\* sleep when the state is no longer Running at registration, and none stays
\* parked for ever, also when an episode ends Poisoned with several threads
\* parked and a single unpark is issued.
C26_EveryCallReturns ==
    /\ [][\A t \in Threads : C26_ParkStep(t)]_vars
    /\ \A t \in Threads : (backend = "pl" /\ pc[t] # "idle") ~> (pc[t] = "idle")

\* two threads are parked while the owner's guard is about to issue its
\* single unpark
C26_Witness ==
    \E t, u, w \in Threads :
        /\ u # w
        /\ backend = "pl"
        /\ pc[t] = "unpark_one"
        /\ pc[u] = "parked" /\ pc[w] = "parked"

\* C27: in the demo programs of the self-hosted queue, queue-service and
\* critical-section backends every one of the four get_or_init calls returns
\* the string "leader", so all four assertions hold.
C27_DemoAssertionsHold ==
    backend \in {"std", "pl", "cs"} =>
        \A t \in AllThreads :
            /\ pc[t] # "failed"
            /\ ret[t].kind = "ok" =>
                  (ret[t].v \in InitValues /\ Main_string(backend, ret[t].v) = "leader")

\* C28: LazyLock::force and LazyLock::force_mut never take the stored
\* initializer when it is absent: whenever the closure or force_mut takes it
\* with unwrap_unchecked (the inner cell not being Complete, also after an
\* earlier forced initializer unwound), the init slot still holds it.
C28_InitPresentWhenTaken ==
    [][runs' # runs => (lazy \in {"ok", "panic"} /\ lazy' = "taken")]_vars

\* C29: whenever OnceLock / OnceCell reads the slot through get_unchecked (in
\* get, after set inside try_insert, after the backend's call returned Ok
\* inside get_or_try_init) the slot holds a value: the backend's call never
\* returns success to a cell operation while the state is not Complete,
\* waiters released by a poisoned episode included.
C29_SlotFilledWhenRead ==
    /\ is_completed => slot # NoneV
    /\ \A t \in Threads :
          (pc[t] = "wret" /\ res[t] \in {"none", "ok"}) => (is_completed /\ slot # NoneV)

\* the word a finishing swap displaces carries the tag Running, and while an
\* owner's episode lasts only the address bits of the word change
C30_OwnerStep(t) ==
    (backend = "std" /\ InEpisode(t)) =>
        /\ State = RUNNING
        /\ (pc[t] = "finish" /\ pc'[t] # "finish") => (pc'[t] = "drain" /\ res'[t] = res[t])
        /\ InEpisode(t)' => TagOf(word') = RUNNING

\* C30: the assertion in the self-hosted queue's Guard::drop always holds:
\* the word displaced by the finishing swap carries the tag Running; between
\* an owner's claim of Running and its finishing swap no other thread changes
\* the tag of the state word (an enqueue exchange changes the address bits
\* only).
C30_AssertHolds ==
    [][\A t \in Threads : C30_OwnerStep(t)]_vars

\* an owner is about to swap while a waiter's node is the head of the word
C30_Witness ==
    \E t, u \in Threads :
        /\ backend = "std"
        /\ pc[t] = "finish"
        /\ Linked(u)
        /\ word = NodeAddr(u) + RUNNING

====
